---- MODULE Spec2Model ----
(***************************************************************************)
(* Love Letter page (src/script.js): the photo slots (PhotoUploader), the  *)
(* keyed photo store over localStorage (PhotoStorage) and the image        *)
(* transform (ImageUtils.resizeAndCompress).                               *)
(*                                                                         *)
(* Spec            the page: DOMContentLoaded, the slots' events and the   *)
(*                 asynchronous steps of every upload.                     *)
(* UploadSpec      Spec without the handlers that only write the drag      *)
(*                 highlight and the width of the progress bar, which no   *)
(*                 code reads.                                             *)
(* DragDropSpec    the drag-and-drop listeners of the cards.               *)
(* FirstUploadSpec UploadSpec on a page whose store is empty.               *)
(* FairUploadSpec  UploadSpec with the fairness of the browser's event     *)
(*                 loop.                                                   *)
(* GallerySpec     the gallery modal and the full-image viewer: openGallery,  *)
(*                 closeGallery, the clicks and keys that close them.      *)
(* FirstVisitSpec  GallerySpec on a page whose store is empty.              *)
(* StoreSpec       direct calls of PhotoStorage.save/load/remove.          *)
(* ResizeSpec      the dimension computation of resizeAndCompress with any *)
(*                 source size and any maxWidth and maxHeight.             *)
(***************************************************************************)
EXTENDS Integers, Sequences, FiniteSets, TLC

VARIABLES
  localStorage,    \* key -> stored text, for the keys that are present
  listening,       \* the slots whose card has its event listeners attached
  loaded,          \* DOMContentLoaded has been dispatched
  modalListeners,  \* the document has the handlers that close the gallery
  currentGallery,  \* the global currentGallery: null or {title, subtitle}
  galleryModal,    \* #gallery-modal: its 'active' class, its texts, .photo-grid
  bodyOverflow,    \* document.body.style.overflow
  viewers,         \* the overlays viewFullImage created, oldest first
  opened,          \* number of viewFullImage calls
  placeholder,     \* slot -> placeholderContent.style.display
  photoDisplay,    \* slot -> photoDisplay.style.display
  uploadProgress,  \* slot -> uploadProgress.style.display
  uploadedPhoto,   \* slot -> uploadedPhoto.src
  progressFill,    \* slot -> progressFill.style.width: "", "0%" or "1-100%"
  dragOver,        \* slot -> card.classList has 'drag-over'
  tasks,           \* slot -> the uploads in flight, oldest first
  started,         \* number of uploads that passed handleFile's validation
  lastWrite,       \* StoreSpec: slot -> the last accepted save or remove (history)
  calls,           \* what the handler that ran last showed, logged and downloaded
  ret              \* StoreSpec, ResizeSpec, DragDropSpec: the call made last and its result

vars == <<localStorage, listening, loaded, modalListeners, currentGallery,
          galleryModal, bodyOverflow, viewers, opened, placeholder, photoDisplay,
          uploadProgress, uploadedPhoto, progressFill, dragOver, tasks,
          started,
          lastWrite, calls, ret>>

galleryVars == <<currentGallery, galleryModal, bodyOverflow, viewers, opened>>

domVars == <<placeholder, photoDisplay, uploadProgress, uploadedPhoto,
             progressFill>>

-----------------------------------------------------------------------------
(* Bounds of the model *)

\* uploads that pass validation, on the whole page in one run
MaxUploads == 2
\* ResizeSpec: source widths and heights are 1..MaxSourceDim
MaxSourceDim == 6
\* ResizeSpec: maxWidth and maxHeight are 1..MaxBoundDim
MaxBoundDim == 4
\* GallerySpec: calls of viewFullImage in one run
MaxViewers == 1

-----------------------------------------------------------------------------
(* The cards of the page and the files a user can pick or drop *)

\* data-slot of the .photo-upload-card elements, in document order
Cards == <<"photo-1", "photo-2">>
Slots == {Cards[i] : i \in 1..Len(Cards)}

\* file.type as its segments: "image/png" is <<"image", "png">>
Files ==
  { [name |-> "beach.png",  type |-> <<"image", "png">>,  size |-> 3 * 1024 * 1024,
     decodes |-> TRUE,  width |-> 2000, height |-> 1000],
    [name |-> "broken.png", type |-> <<"image", "png">>,  size |-> 10 * 1024 * 1024,
     decodes |-> FALSE, width |-> 0,    height |-> 0],
    [name |-> "sliver.png", type |-> <<"image", "png">>,  size |-> 2048,
     decodes |-> TRUE,  width |-> 2000, height |-> 1],
    [name |-> "huge.jpg",   type |-> <<"image", "jpeg">>, size |-> 10 * 1024 * 1024 + 1,
     decodes |-> TRUE,  width |-> 4000, height |-> 3000],
    [name |-> "notes.txt",  type |-> <<"text", "plain">>, size |-> 12,
     decodes |-> FALSE, width |-> 0,    height |-> 0] }

\* new Date().toISOString(): StoreSpec saves at any of these times, the page
\* at PageTime
Timestamps == {"2026-01-01T00:00:00.000Z", "2026-01-02T00:00:00.000Z"}
PageTime == "2026-01-02T00:00:00.000Z"

-----------------------------------------------------------------------------
(* JSON texts and objects.  An object is the sequence of its <<key, value>> *)
(* members; a text is an object's serialisation, a text that does not      *)
(* parse, or the empty string.                                             *)

Undefined == "undefined"

RECURSIVE Get(_, _)
\* obj[key]: the value of the last member with that key
Get(obj, key) ==
  IF obj = <<>> THEN Undefined
  ELSE IF obj[Len(obj)][1] = key THEN obj[Len(obj)][2]
  ELSE Get(SubSeq(obj, 1, Len(obj) - 1), key)

JSONstringify(obj) == [syntax |-> "object", members |-> obj]

JSONparse(text) ==
  IF text.syntax = "object"
    THEN [threw |-> FALSE, isNull |-> FALSE, obj |-> text.members]
    ELSE [threw |-> TRUE,  isNull |-> FALSE, obj |-> <<>>]

EmptyText == [syntax |-> "empty", members |-> <<>>]
TruncatedText(obj) == [syntax |-> "truncated", members |-> obj]

-----------------------------------------------------------------------------
(* PhotoStorage *)

\* mutant: the key does not depend on the slot
StorageKey_Shared(slotId) == "love-letter-photo"

StorageKey(slotId) == "love-letter-photo-" \o slotId

PhotoData(imageData, originalName, uploadedAt) ==
  << <<"imageData", imageData>>, <<"originalName", originalName>>,
     <<"uploadedAt", uploadedAt>> >>

\* localStorage.setItem: the value replaces the key's value, or the store
\* rejects the write (QuotaExceededError) and keeps what it had
SetItem(ls, key, text, accepted) ==
  IF accepted
    THEN [ls |-> [k \in DOMAIN ls \cup {key} |-> IF k = key THEN text ELSE ls[k]],
          threw |-> FALSE]
    ELSE [ls |-> ls, threw |-> TRUE]

\* mutant: the new fields are merged into the record the slot holds
PhotoStorageSave_Merge(ls, slotId, imageData, originalName, uploadedAt, accepted) ==
  LET key == StorageKey(slotId)
      kept == IF key \in DOMAIN ls /\ ls[key].syntax = "object"
                THEN Get(ls[key].members, "uploadedAt") ELSE uploadedAt
  IN  SetItem(ls, key, JSONstringify(PhotoData(imageData, originalName, kept)), accepted)

PhotoStorageSave(ls, slotId, imageData, originalName, uploadedAt, accepted) ==
  SetItem(ls, StorageKey(slotId),
          JSONstringify(PhotoData(imageData, originalName, uploadedAt)), accepted)

NullResult == [threw |-> FALSE, isNull |-> TRUE, obj |-> <<>>]

\* data ? JSON.parse(data) : null  -- null and "" are falsy
PhotoStorageLoad(ls, slotId) ==
  LET key == StorageKey(slotId)
  IN  IF key \notin DOMAIN ls THEN NullResult
      ELSE IF ls[key].syntax = "empty" THEN NullResult
      ELSE JSONparse(ls[key])

\* mutant: removing a key that is not there is an error
PhotoStorageRemove_ThrowsIfAbsent(ls, slotId) ==
  IF StorageKey(slotId) \in DOMAIN ls
    THEN [ls |-> [k \in DOMAIN ls \ {StorageKey(slotId)} |-> ls[k]], threw |-> FALSE]
    ELSE [ls |-> ls, threw |-> TRUE]

PhotoStorageRemove(ls, slotId) ==
  [ls |-> [k \in DOMAIN ls \ {StorageKey(slotId)} |-> ls[k]], threw |-> FALSE]

-----------------------------------------------------------------------------
(* ImageUtils *)

DefaultMaxWidth == 800
DefaultMaxHeight == 800
DefaultQuality == "0.8"

\* mutant: the larger side is set to its maximum, also when it is below it
ResizeDims_AlwaysScales(width, height, maxWidth, maxHeight) ==
  IF width > height
    THEN [width |-> maxWidth, height |-> (height * maxWidth) \div width]
    ELSE [width |-> (width * maxHeight) \div height, height |-> maxHeight]

\* img.onload: the new dimensions, as the canvas keeps them (canvas.width and
\* canvas.height are unsigned longs: the fraction is dropped)
ResizeDims(width, height, maxWidth, maxHeight) ==
  IF width > height
    THEN IF width > maxWidth
           THEN [width |-> maxWidth, height |-> (height * maxWidth) \div width]
           ELSE [width |-> width, height |-> height]
    ELSE IF height > maxHeight
           THEN [width |-> (width * maxHeight) \div height, height |-> maxHeight]
           ELSE [width |-> width, height |-> height]

\* canvas.toBlob gives null for a canvas without pixels
BlobIsNull(dims) == dims.width = 0 \/ dims.height = 0

\* reader.readAsDataURL of the JPEG blob of the canvas
DataURL(file, dims, quality) ==
  "data:image/jpeg;q=" \o quality \o ";" \o file.name \o ";"
    \o ToString(dims.width) \o "x" \o ToString(dims.height)

Transformed(file) ==
  DataURL(file, ResizeDims(file.width, file.height, DefaultMaxWidth, DefaultMaxHeight),
          DefaultQuality)

DownloadFilename(slotId, file) == "love-letter-" \o slotId \o "-" \o file.name

-----------------------------------------------------------------------------
(* Initial state: the page as parsed, before DOMContentLoaded, over a       *)
(* localStorage that holds, per slot, nothing, an earlier upload or a text  *)
(* that does not parse (StoreSpec: or the empty string).                    *)

OldPhoto == [name |-> "old.jpg", type |-> <<"image", "jpeg">>, size |-> 4096,
             decodes |-> TRUE, width |-> 600, height |-> 800]

EarlierUpload == PhotoData(Transformed(OldPhoto), "old.jpg", "2026-01-01T00:00:00.000Z")

PageTexts == {JSONstringify(EarlierUpload), TruncatedText(EarlierUpload)}
StoredTexts == PageTexts \cup {EmptyText}

StoresOf(texts) ==
  UNION {[{StorageKey(s) : s \in present} -> texts] : present \in SUBSET Slots}

NoWrite == [kind |-> "none", imageData |-> "", originalName |-> "", uploadedAt |-> "",
            replaced |-> FALSE]

NoCall == [call |-> "none"]

\* currentGallery = null
NoGallery == [isNull |-> TRUE, title |-> "", subtitle |-> ""]

InitOver(stores) ==
  /\ localStorage \in stores
  /\ listening = {}
  /\ loaded = FALSE
  /\ modalListeners = FALSE
  /\ currentGallery = NoGallery
  /\ galleryModal = [active |-> FALSE, title |-> "", subtitle |-> "", grid |-> <<>>]
  /\ bodyOverflow = ""
  /\ viewers = <<>>
  /\ opened = 0
  /\ placeholder = [s \in Slots |-> ""]
  /\ photoDisplay = [s \in Slots |-> ""]
  /\ uploadProgress = [s \in Slots |-> ""]
  /\ uploadedPhoto = [s \in Slots |-> ""]
  /\ progressFill = [s \in Slots |-> ""]
  /\ dragOver = [s \in Slots |-> FALSE]
  /\ tasks = [s \in Slots |-> <<>>]
  /\ started = 0
  /\ lastWrite = [s \in Slots |-> NoWrite]
  /\ calls = <<>>
  /\ ret = NoCall

Init == InitOver(StoresOf(PageTexts))
StoreInit == InitOver(StoresOf(StoredTexts))

-----------------------------------------------------------------------------
(* StoreSpec and ResizeSpec: calls of the store and of the dimension       *)
(* computation                                                             *)

pageVars == <<listening, loaded, modalListeners, galleryVars, placeholder, photoDisplay, uploadProgress,
              uploadedPhoto, progressFill, dragOver, tasks, started,
              calls>>

ImageDatas == {Transformed(f) : f \in {g \in Files : g.name = "beach.png"} \cup {OldPhoto}}
OriginalNames == {"beach.png", "old.jpg"}

ApiSave(slotId, imageData, originalName, uploadedAt, accepted) ==
  LET r == PhotoStorageSave(localStorage, slotId, imageData, originalName,
                            uploadedAt, accepted)
  IN  /\ localStorage' = r.ls
      /\ lastWrite' = IF r.threw THEN lastWrite
                      ELSE [lastWrite EXCEPT ![slotId] =
                              [kind |-> "saved", imageData |-> imageData,
                               originalName |-> originalName,
                               uploadedAt |-> uploadedAt,
                               replaced |-> StorageKey(slotId) \in DOMAIN localStorage]]
      /\ ret' = [call |-> "save", slotId |-> slotId, imageData |-> imageData,
                  originalName |-> originalName, uploadedAt |-> uploadedAt,
                  threw |-> r.threw]
      /\ UNCHANGED pageVars

ApiLoad(slotId) ==
  /\ ret' = [call |-> "load", slotId |-> slotId,
              result |-> PhotoStorageLoad(localStorage, slotId)]
  /\ UNCHANGED <<localStorage, lastWrite, pageVars>>

ApiRemove(slotId) ==
  LET r == PhotoStorageRemove(localStorage, slotId)
  IN  /\ localStorage' = r.ls
      /\ lastWrite' = IF r.threw THEN lastWrite
                      ELSE [lastWrite EXCEPT ![slotId] = [NoWrite EXCEPT !.kind = "removed"]]
      /\ ret' = [call |-> "remove", slotId |-> slotId, threw |-> r.threw,
                  present |-> StorageKey(slotId) \in DOMAIN localStorage]
      /\ UNCHANGED pageVars

ApiResize(width, height, maxWidth, maxHeight) ==
  /\ ret' = [call |-> "resize", width |-> width, height |-> height,
              maxWidth |-> maxWidth, maxHeight |-> maxHeight,
              out |-> ResizeDims(width, height, maxWidth, maxHeight)]
  /\ UNCHANGED <<localStorage, lastWrite, pageVars>>

StoreNext ==
  \/ \E s \in Slots, d \in ImageDatas, n \in OriginalNames, t \in Timestamps,
        ok \in BOOLEAN : ApiSave(s, d, n, t, ok)
  \/ \E s \in Slots : ApiLoad(s)
  \/ \E s \in Slots : ApiRemove(s)

StoreSpec == StoreInit /\ [][StoreNext]_vars

ResizeNext ==
  \E w \in 1..MaxSourceDim, h \in 1..MaxSourceDim,
     mw \in 1..MaxBoundDim, mh \in 1..MaxBoundDim : ApiResize(w, h, mw, mh)

ResizeInit == InitOver(StoresOf({}))

ResizeSpec == ResizeInit /\ [][ResizeNext]_vars

-----------------------------------------------------------------------------------------------------------------------------------------------------
(* The DOM of the slots.  The stylesheet decides what an element without an *)
(* inline display shows: the placeholder is shown, the photo display and    *)
(* the progress indicator are not.                                          *)

PlaceholderShown(style) == style # "none"
PhotoShown(style) == style = "block"
ProgressShown(style) == style = "flex"

Dom == [placeholder |-> placeholder, photoDisplay |-> photoDisplay,
        uploadProgress |-> uploadProgress, uploadedPhoto |-> uploadedPhoto,
        progressFill |-> progressFill]

SetDom(d) ==
  /\ placeholder' = d.placeholder
  /\ photoDisplay' = d.photoDisplay
  /\ uploadProgress' = d.uploadProgress
  /\ uploadedPhoto' = d.uploadedPhoto
  /\ progressFill' = d.progressFill

\* what slot s shows, the progress indicator aside: "Empty", "Displaying",
\* "Blank" (neither the placeholder nor the photo) or "Both"
SlotShows(d, s) ==
  IF PlaceholderShown(d.placeholder[s])
    THEN IF PhotoShown(d.photoDisplay[s]) THEN "Both" ELSE "Empty"
    ELSE IF PhotoShown(d.photoDisplay[s]) THEN "Displaying" ELSE "Blank"

Call(op, a, b) == [op |-> op, a |-> a, b |-> b]

ShowProgress(d, s) ==
  [d EXCEPT !.placeholder[s] = "none", !.photoDisplay[s] = "none",
            !.uploadProgress[s] = "flex", !.progressFill[s] = "0%"]

DisplayPhoto(d, s, imageData) ==
  [d EXCEPT !.uploadedPhoto[s] = imageData, !.placeholder[s] = "none",
            !.photoDisplay[s] = "block"]

-----------------------------------------------------------------------------
(* DOMContentLoaded: one PhotoUploader per card, in document order.  An     *)
(* exception of a constructor ends the handler.                             *)

\* mutant: the constructor does not call loadExistingPhoto
Construct_SkipsLoad(st, s) == [st EXCEPT !.listening = @ \cup {s}]

\* new PhotoUploader(card) on st = [dom, listening, threw]
Construct(st, s) ==
  LET r == PhotoStorageLoad(localStorage, s)
      heard == [st EXCEPT !.listening = @ \cup {s}]
  IN  IF r.threw THEN [heard EXCEPT !.threw = TRUE]
      ELSE IF r.isNull THEN heard
      ELSE [heard EXCEPT !.dom = DisplayPhoto(@, s, Get(r.obj, "imageData"))]

RECURSIVE ConstructAll(_, _)
ConstructAll(st, i) ==
  IF i > Len(Cards) \/ st.threw THEN st
  ELSE ConstructAll(Construct(st, Cards[i]), i + 1)

Constructed == ConstructAll([dom |-> Dom, listening |-> {}, threw |-> FALSE], 1)

DOMContentLoaded ==
  /\ ~loaded
  /\ loaded' = TRUE
  /\ listening' = Constructed.listening
  /\ SetDom(Constructed.dom)
  \* the handlers that close the gallery are added after the constructors
  /\ modalListeners' = ~Constructed.threw
  /\ calls' = IF Constructed.threw
                THEN <<Call("uncaught", "SyntaxError", "JSON.parse")>> ELSE <<>>
  /\ UNCHANGED <<localStorage, dragOver, tasks, started,
                 lastWrite, ret, galleryVars>>

-----------------------------------------------------------------------------
(* handleFile, up to its await *)

MaxFileSize == 10 * 1024 * 1024

\* file.type.startsWith('image/')
IsImageType(file) == Len(file.type) >= 2 /\ file.type[1] = "image"

\* mutant: the limit is written with a zero too many
FileTooLarge_HundredMB(file) == file.size > 100 * 1024 * 1024

FileTooLarge(file) == file.size > MaxFileSize

CanStart == started < MaxUploads

NewTask(s, file) ==
  [file |-> file, stage |-> "decoding", dims |-> [width |-> 0, height |-> 0],
   before |-> SlotShows(Dom, s), outcome |-> ""]

\* handleFile(file) of slot s
HandleFile(s, file) ==
  IF ~IsImageType(file) THEN
    /\ calls' = <<Call("alert", "Please select a valid image file", "")>>
    /\ UNCHANGED <<localStorage, domVars, tasks, started, lastWrite>>
  ELSE IF FileTooLarge(file) THEN
    /\ calls' = <<Call("alert", "Image size must be less than 10MB", "")>>
    /\ UNCHANGED <<localStorage, domVars, tasks, started, lastWrite>>
  ELSE
    /\ CanStart
    /\ started' = started + 1
    /\ SetDom(ShowProgress(Dom, s))
    /\ tasks' = [tasks EXCEPT ![s] = Append(@, NewTask(s, file))]
    /\ calls' = <<>>
    /\ UNCHANGED <<localStorage, lastWrite>>

\* the file input's change event with one selected file
FileInputChange(s, file) ==
  /\ s \in listening
  /\ HandleFile(s, file)
  /\ UNCHANGED <<listening, loaded, modalListeners, dragOver, ret, galleryVars>>

\* the pointer drags over one card at a time
DragOver(s) ==
  /\ s \in listening
  /\ \A o \in Slots \ {s} : ~dragOver[o]
  /\ dragOver' = [dragOver EXCEPT ![s] = TRUE]
  /\ calls' = <<>>
  /\ UNCHANGED <<localStorage, listening, loaded, modalListeners, domVars, tasks, started, lastWrite, ret, galleryVars>>

DragLeave(s, leftCard) ==
  /\ s \in listening
  /\ dragOver' = [dragOver EXCEPT ![s] = IF leftCard THEN FALSE ELSE @]
  /\ calls' = <<>>
  /\ UNCHANGED <<localStorage, listening, loaded, modalListeners, domVars, tasks, started, lastWrite, ret, galleryVars>>

\* mutant: every dropped file goes to handleFile
DropListener_Unfiltered(s, file) ==
  /\ s \in listening
  /\ dragOver' = [dragOver EXCEPT ![s] = FALSE]
  /\ HandleFile(s, file)
  /\ UNCHANGED <<listening, loaded, modalListeners, galleryVars>>

\* the card's drop listener with one dropped file
DropListener(s, file) ==
  /\ s \in listening
  /\ dragOver' = [dragOver EXCEPT ![s] = FALSE]
  /\ IF IsImageType(file)
       THEN HandleFile(s, file)
       ELSE /\ calls' = <<>>
            /\ UNCHANGED <<localStorage, domVars, tasks, started, lastWrite>>
  /\ UNCHANGED <<listening, loaded, modalListeners, galleryVars>>

Drop(s, file) == DropListener(s, file) /\ UNCHANGED ret

\* DragDropSpec: a drop, recorded as the call made last
DropCall(s, file) ==
  /\ DropListener(s, file)
  /\ ret' = [call |-> "drop", slotId |-> s, file |-> file.name,
              highlighted |-> dragOver[s]]

-----------------------------------------------------------------------------
(* resizeAndCompress: the steps of one upload after handleFile's await *)

Remove(seq, i) == SubSeq(seq, 1, i - 1) \o SubSeq(seq, i + 1, Len(seq))

HasTask(s, i, stage) == i \in 1..Len(tasks[s]) /\ tasks[s][i].stage = stage

\* img.onload: the canvas takes the new dimensions and toBlob is asked
ImgLoad(s, i) ==
  /\ HasTask(s, i, "decoding")
  /\ tasks[s][i].file.decodes
  /\ LET file == tasks[s][i].file
         dims == ResizeDims(file.width, file.height, DefaultMaxWidth, DefaultMaxHeight)
     IN  tasks' = [tasks EXCEPT ![s][i].stage = "encoding", ![s][i].dims = dims]
  /\ calls' = <<>>
  /\ UNCHANGED <<localStorage, listening, loaded, modalListeners, domVars, dragOver, started, lastWrite, ret, galleryVars>>

\* the image does not decode: img has no onerror, the promise is never settled
ImgError(s, i) ==
  /\ HasTask(s, i, "decoding")
  /\ ~tasks[s][i].file.decodes
  /\ tasks' = [tasks EXCEPT ![s] = Remove(@, i)]
  /\ calls' = <<>>
  /\ UNCHANGED <<localStorage, listening, loaded, modalListeners, domVars, dragOver, started, lastWrite, ret, galleryVars>>

\* the toBlob callback: a null blob is dropped, the promise is never settled
ToBlobCallback(s, i) ==
  /\ HasTask(s, i, "encoding")
  /\ tasks' = IF BlobIsNull(tasks[s][i].dims)
                THEN [tasks EXCEPT ![s] = Remove(@, i)]
                ELSE [tasks EXCEPT ![s][i].stage = "reading"]
  /\ calls' = <<>>
  /\ UNCHANGED <<localStorage, listening, loaded, modalListeners, domVars, dragOver, started, lastWrite, ret, galleryVars>>

\* mutant: the photo is displayed before it is saved
HandleFileTry_DisplayFirst == <<"displayPhoto", "save", "downloadImage", "showToast">>

\* the statements of handleFile's try block after the await, in order
HandleFileTry == <<"save", "displayPhoto", "downloadImage", "showToast">>

\* one statement on st = [ls, dom, calls, threw];
\* c = [slot, file, data, uploadedAt, accepted]
Exec(stmt, st, c) ==
  CASE stmt = "save" ->
         LET r == PhotoStorageSave(st.ls, c.slot, c.data, c.file.name,
                                   c.uploadedAt, c.accepted)
         IN  [st EXCEPT !.ls = r.ls, !.threw = r.threw,
                        !.calls = Append(@, Call("save", c.slot, c.file.name))]
    [] stmt = "displayPhoto" ->
         [st EXCEPT !.dom = DisplayPhoto(@, c.slot, c.data),
                    !.calls = Append(@, Call("displayPhoto", c.slot, c.data))]
    [] stmt = "downloadImage" ->
         [st EXCEPT !.calls = Append(@, Call("downloadImage", c.data,
                                             DownloadFilename(c.slot, c.file)))]
    [] stmt = "showToast" ->
         [st EXCEPT !.calls = Append(@,
            Call("showToast", "Photo uploaded and downloaded successfully!", "success"))]

RECURSIVE RunTry(_, _, _)
\* the statements run in order until one throws
RunTry(stmts, st, c) ==
  IF stmts = <<>> \/ st.threw THEN st
  ELSE RunTry(Tail(stmts), Exec(Head(stmts), st, c), c)

\* catch (error)
Catch(st) ==
  IF st.threw
    THEN [st EXCEPT !.calls = @ \o <<Call("console.error", "Upload error:", ""),
                                     Call("showToast", "Failed to upload photo", "error")>>]
    ELSE st

\* handleFile of task i of slot s after its await
Resumed(s, i, uploadedAt, accepted) ==
  LET file == tasks[s][i].file
  IN  Catch(RunTry(HandleFileTry,
                   [ls |-> localStorage, dom |-> Dom, calls |-> <<>>, threw |-> FALSE],
                   [slot |-> s, file |-> file,
                    data |-> DataURL(file, tasks[s][i].dims, DefaultQuality),
                    uploadedAt |-> uploadedAt, accepted |-> accepted]))

\* reader.onload resolves the promise; handleFile resumes: try, catch, finally
ReaderLoad(s, i, uploadedAt, accepted) ==
  /\ HasTask(s, i, "reading")
  /\ LET st == Resumed(s, i, uploadedAt, accepted)
     IN  /\ localStorage' = st.ls
         /\ SetDom(st.dom)
         /\ calls' = st.calls
         \* finally: hideProgress() sets its timer
         /\ tasks' = [tasks EXCEPT ![s][i].stage = "hiding",
                        ![s][i].outcome = IF st.threw THEN "failed" ELSE "saved"]
  /\ UNCHANGED <<listening, loaded, modalListeners, dragOver, started, lastWrite, ret, galleryVars>>

\* the timer of hideProgress
HideProgressTimeout(s, i) ==
  /\ HasTask(s, i, "hiding")
  /\ uploadProgress' = [uploadProgress EXCEPT ![s] = "none"]
  /\ tasks' = [tasks EXCEPT ![s] = Remove(@, i)]
  /\ calls' = <<>>
  /\ UNCHANGED <<localStorage, listening, loaded, modalListeners, placeholder, photoDisplay,
                 uploadedPhoto, progressFill, dragOver, started,
                 lastWrite, ret, galleryVars>>

\* a tick of an animateProgress interval: the width grows by a random amount
\* below 20 and is 100% from 90 on, where the interval is cleared.  The width
\* is kept as "0%" (showProgress) or "1-100%" (some tick since), so only the
\* first tick after showProgress, whose interval is running, changes it.
ProgressTick(s) ==
  /\ progressFill[s] = "0%"
  /\ progressFill' = [progressFill EXCEPT ![s] = "1-100%"]
  /\ calls' = <<>>
  /\ UNCHANGED <<localStorage, listening, loaded, modalListeners, placeholder, photoDisplay,
                 uploadProgress, uploadedPhoto, dragOver, tasks, started,
                 lastWrite, ret, galleryVars>>

-----------------------------------------------------------------------------
(* deletePhoto *)

\* the delete button is part of the photo display
DeleteBtnShown(s) == PhotoShown(photoDisplay[s])

\* mutant: the answer of confirm() is not looked at
DeletePhoto_Unconfirmed(s, confirmed) ==
  /\ localStorage' = PhotoStorageRemove(localStorage, s).ls
  /\ photoDisplay' = [photoDisplay EXCEPT ![s] = "none"]
  /\ placeholder' = [placeholder EXCEPT ![s] = "block"]
  /\ calls' = <<Call("showToast", "Photo removed successfully!", "success")>>

DeletePhoto(s, confirmed) ==
  IF confirmed
    THEN /\ localStorage' = PhotoStorageRemove(localStorage, s).ls
         /\ photoDisplay' = [photoDisplay EXCEPT ![s] = "none"]
         /\ placeholder' = [placeholder EXCEPT ![s] = "block"]
         /\ calls' = <<Call("showToast", "Photo removed successfully!", "success")>>
    ELSE /\ calls' = <<>>
         /\ UNCHANGED <<localStorage, photoDisplay, placeholder>>

DeleteBtnClick(s, confirmed) ==
  /\ s \in listening
  /\ DeleteBtnShown(s)
  /\ DeletePhoto(s, confirmed)
  /\ UNCHANGED <<listening, loaded, modalListeners, uploadProgress, uploadedPhoto, progressFill,
                 dragOver, tasks, started, lastWrite, ret, galleryVars>>

-----------------------------------------------------------------------------
(* The gallery modal: openGallery, closeGallery, generatePhotoSlots.  The   *)
(* visitor opens galleries, clicks and types on the page once it is loaded. *)

slotVars == <<localStorage, listening, loaded, modalListeners, domVars, dragOver,
              tasks, started, lastWrite, ret>>

GALLERY_IMAGES ==
  "My Everything" :> <<"MyEv1.JPG", "MyEv2.JPG", "MyEv3.JPG", "MyEv4.JPG", "MyEv5.JPG",
                       "MyEv6.jpeg", "MyEv7.jpeg", "MyEv8.jpeg", "MyEv9.png">>
  @@ "Our Future" :> <<"Us1.jpg", "Us2.jpg", "Us3.jpeg", "Us4.jpeg", "Us5.png",
                       "Us6.jpeg", "Us7.jpeg", "Us8.jpeg", "Us9.jpg">>

\* the titles and subtitles openGallery is called with: the two of the table,
\* one that is not in it, and one that names a property every object inherits
\* (GALLERY_IMAGES['constructor'] is a function: truthy, without elements)
Titles == {"My Everything", "Our Future", "Our Past", "constructor"}
Subtitles == {"Moments with you"}

\* GALLERY_IMAGES[title] || [], as the list of its elements
ImagesOf(title) ==
  IF title \in DOMAIN GALLERY_IMAGES THEN GALLERY_IMAGES[title] ELSE <<>>

\* for (let i = 1; i <= 9; i++)
GridSlots == 9

NoListener == [bound |-> FALSE, imageSrc |-> "", i |-> 0]

\* the i-th .photo-slot: the image and its click listener, or the placeholder
PhotoSlot(images, title, i) ==
  IF i <= Len(images) /\ images[i] # ""
    THEN [img |-> images[i], alt |-> title \o " Photo " \o ToString(i), text |-> "",
          listener |-> [bound |-> TRUE, imageSrc |-> images[i], i |-> i]]
    ELSE [img |-> "", alt |-> "", text |-> "Photo " \o ToString(i),
          listener |-> NoListener]

RECURSIVE AppendSlots(_, _, _, _)
AppendSlots(grid, images, title, i) ==
  IF i > GridSlots THEN grid
  ELSE AppendSlots(Append(grid, PhotoSlot(images, title, i)), images, title, i + 1)

\* mutant: the grid is not emptied before the slots are appended
GeneratePhotoSlots_KeepsOld(grid, gallery) ==
  AppendSlots(grid, ImagesOf(gallery.title), gallery.title, 1)

\* generatePhotoSlots: photoGrid.innerHTML = '', then the nine slots
GeneratePhotoSlots(grid, gallery) ==
  AppendSlots(<<>>, ImagesOf(gallery.title), gallery.title, 1)

Gallery == [currentGallery |-> currentGallery, modal |-> galleryModal,
            overflow |-> bodyOverflow]

SetGallery(g) ==
  /\ currentGallery' = g.currentGallery
  /\ galleryModal' = g.modal
  /\ bodyOverflow' = g.overflow

OpenGallery(g, title, subtitle) ==
  LET gallery == [isNull |-> FALSE, title |-> title, subtitle |-> subtitle]
  IN  [currentGallery |-> gallery,
       modal |-> [active |-> TRUE, title |-> title, subtitle |-> subtitle,
                  grid |-> GeneratePhotoSlots(g.modal.grid, gallery)],
       overflow |-> "hidden"]

CloseGallery(g) ==
  [g EXCEPT !.modal.active = FALSE, !.overflow = "auto", !.currentGallery = NoGallery]

\* window.openGallery(title, subtitle)
OpenGalleryCall(title, subtitle) ==
  /\ loaded
  /\ SetGallery(OpenGallery(Gallery, title, subtitle))
  /\ calls' = <<>>
  /\ UNCHANGED <<viewers, opened, slotVars>>

\* window.closeGallery()
CloseGalleryCall ==
  /\ loaded
  /\ SetGallery(CloseGallery(Gallery))
  /\ calls' = <<>>
  /\ UNCHANGED <<viewers, opened, slotVars>>

\* the stylesheet shows #gallery-modal when it has the class 'active'
GalleryShown(modal) == modal.active

\* a click on the background of the modal (e.target is .gallery-modal): the
\* document's click handler, when DOMContentLoaded has added it
GalleryBackgroundClick ==
  /\ loaded
  /\ GalleryShown(galleryModal)
  /\ SetGallery(IF modalListeners THEN CloseGallery(Gallery) ELSE Gallery)
  /\ calls' = <<>>
  /\ UNCHANGED <<viewers, opened, slotVars>>

-----------------------------------------------------------------------------
(* viewFullImage *)

CanOpen == opened < MaxViewers

\* the overlay of one call: in document.body, with handleEsc on the document
ViewFullImage(imageSrc, altText) ==
  [src |-> imageSrc, alt |-> altText, attached |-> TRUE, escListener |-> TRUE]

\* closeModal of viewer v on st = [viewers, calls]:
\* document.body.removeChild throws NotFoundError for a node that is not a child
CloseModal(st, v) ==
  IF st.viewers[v].attached
    THEN [st EXCEPT !.viewers[v].attached = FALSE, !.threw = FALSE]
    ELSE [st EXCEPT !.calls = Append(@, Call("uncaught", "NotFoundError", "removeChild")),
                    !.threw = TRUE]

\* handleEsc of viewer v: the listener is removed after closeModal returned
HandleEsc(st, v, key) ==
  IF key = "Escape"
    THEN LET closed == CloseModal(st, v)
         IN  IF closed.threw THEN closed
             ELSE [closed EXCEPT !.viewers[v].escListener = FALSE]
    ELSE st

RECURSIVE DispatchKeydown(_, _, _)
\* the keydown listeners of the viewers, in the order they were added; an
\* exception of one listener is reported and the next one runs
DispatchKeydown(st, v, key) ==
  IF v > Len(st.viewers) THEN st
  ELSE DispatchKeydown(IF st.viewers[v].escListener THEN HandleEsc(st, v, key) ELSE st,
                       v + 1, key)

Keys == {"Escape", "Enter"}

\* a keydown on the document: the gallery's handler (when DOMContentLoaded has
\* added it), then the viewers' handleEsc
Keydown(key) ==
  LET st == DispatchKeydown([viewers |-> viewers, calls |-> <<>>, threw |-> FALSE], 1, key)
  IN  /\ loaded
      /\ SetGallery(IF modalListeners /\ key = "Escape" /\ ~currentGallery.isNull
                      THEN CloseGallery(Gallery) ELSE Gallery)
      /\ viewers' = st.viewers
      /\ calls' = st.calls
      /\ UNCHANGED <<opened, slotVars>>

\* a click on the i-th slot of the grid: its listener calls viewFullImage with
\* the slot's image and `${currentGallery.title} Photo ${i}`
PhotoSlotClick(i) ==
  /\ loaded
  /\ GalleryShown(galleryModal)
  /\ i \in 1..Len(galleryModal.grid)
  /\ galleryModal.grid[i].listener.bound
  /\ CanOpen
  /\ opened' = opened + 1
  /\ IF currentGallery.isNull
       THEN /\ calls' = <<Call("uncaught", "TypeError", "currentGallery.title")>>
            /\ UNCHANGED viewers
       ELSE /\ viewers' = Append(viewers,
                 ViewFullImage(galleryModal.grid[i].listener.imageSrc,
                               currentGallery.title \o " Photo "
                                 \o ToString(galleryModal.grid[i].listener.i)))
            /\ calls' = <<>>
  /\ UNCHANGED <<currentGallery, galleryModal, bodyOverflow, slotVars>>

ClickTargets == {"overlay", "closeBtn", "img"}

\* a click inside the overlay of viewer v: on its background (e.target is the
\* overlay), on its close button, or on its image (no handler acts)
OverlayClick(v, target) ==
  /\ loaded
  /\ v \in 1..Len(viewers)
  /\ viewers[v].attached
  /\ LET st == IF target = "img"
                 THEN [viewers |-> viewers, calls |-> <<>>, threw |-> FALSE]
                 ELSE CloseModal([viewers |-> viewers, calls |-> <<>>, threw |-> FALSE], v)
     IN  viewers' = st.viewers /\ calls' = st.calls
  /\ UNCHANGED <<currentGallery, galleryModal, bodyOverflow, opened, slotVars>>

ViewerIndex == 1..MaxViewers

GalleryActions ==
  \/ \E title \in Titles, subtitle \in Subtitles : OpenGalleryCall(title, subtitle)
  \/ CloseGalleryCall
  \/ GalleryBackgroundClick
  \/ \E key \in Keys : Keydown(key)
  \/ \E i \in 1..GridSlots : PhotoSlotClick(i)
  \/ \E v \in ViewerIndex, target \in ClickTargets : OverlayClick(v, target)

GalleryNext == DOMContentLoaded \/ GalleryActions

\* the page over a store that holds nothing, an earlier upload or a text that
\* does not parse for the first card, and nothing for the others
GalleryInit ==
  InitOver({ls \in StoresOf(PageTexts) : DOMAIN ls \subseteq {StorageKey(Cards[1])}})

GallerySpec == GalleryInit /\ [][GalleryNext]_vars

\* the gallery on the page of a first visit: nothing is stored
FirstVisitSpec == ResizeInit /\ [][GalleryNext]_vars

-----------------------------------------------------------------------------
(* The page *)

TaskIndex == 1..MaxUploads

UploadNext ==
  \/ DOMContentLoaded
  \/ \E s \in Slots, f \in Files : FileInputChange(s, f)
  \/ \E s \in Slots, f \in Files : Drop(s, f)
  \/ \E s \in Slots, i \in TaskIndex : ImgLoad(s, i)
  \/ \E s \in Slots, i \in TaskIndex : ImgError(s, i)
  \/ \E s \in Slots, i \in TaskIndex : ToBlobCallback(s, i)
  \/ \E s \in Slots, i \in TaskIndex, ok \in BOOLEAN :
        ReaderLoad(s, i, PageTime, ok)
  \/ \E s \in Slots, i \in TaskIndex : HideProgressTimeout(s, i)
  \/ \E s \in Slots, confirmed \in BOOLEAN : DeleteBtnClick(s, confirmed)

\* the handlers that write only dragOver and progressFill
CosmeticNext ==
  \/ \E s \in Slots : DragOver(s)
  \/ \E s \in Slots, leftCard \in BOOLEAN : DragLeave(s, leftCard)
  \/ \E s \in Slots : ProgressTick(s)

Next == UploadNext \/ CosmeticNext \/ GalleryActions

Spec == Init /\ [][Next]_vars

UploadSpec == Init /\ [][UploadNext]_vars

\* the drag-and-drop listeners of the cards; the uploads the drops start stay
\* pending (their steps are those of UploadSpec)
DragDropNext ==
  \/ DOMContentLoaded
  \/ \E s \in Slots : DragOver(s)
  \/ \E s \in Slots, leftCard \in BOOLEAN : DragLeave(s, leftCard)
  \/ \E s \in Slots, f \in Files : DropCall(s, f)

DragDropSpec == Init /\ [][DragDropNext]_vars

\* UploadSpec on the page of a first visit: nothing is stored
FirstUploadSpec == ResizeInit /\ [][UploadNext]_vars

\* The event loop runs every task that is ready: the load or error event of an
\* image, the toBlob and FileReader callbacks, and the timers.
Fairness ==
  /\ WF_vars(DOMContentLoaded)
  /\ \A s \in Slots, i \in TaskIndex :
       /\ WF_vars(ImgLoad(s, i))
       /\ WF_vars(ImgError(s, i))
       /\ WF_vars(ToBlobCallback(s, i))
       /\ WF_vars(\E ok \in BOOLEAN : ReaderLoad(s, i, PageTime, ok))
       /\ WF_vars(HideProgressTimeout(s, i))

FairUploadSpec == UploadSpec /\ Fairness

-----------------------------------------------------------------------------
(* Claims *)

\* C1: every upload that passes validation and shows the progress indicator
\* eventually has the progress indicator hidden, whatever its outcome
\* (success, decode failure, no blob from the encoder, rejected write).
C1_ProgressEventuallyHidden ==
  \A s \in Slots :
    ProgressShown(uploadProgress[s]) ~> ~ProgressShown(uploadProgress[s])

\* the calls of c to op, and the (single) file named n
CallsTo(c, op) == {k \in 1..Len(c) : c[k].op = op}
ToastsOf(c, type) == {k \in CallsTo(c, "showToast") : c[k].b = type}
FileNamed(n) == CHOOSE f \in Files : f.name = n
SlotKey(s) == "love-letter-photo-" \o s

\* the steps in which the upload i of slot s fails: its image does not decode,
\* the encoder gives no blob, or the store rejects the write
TransformFails(s, i) ==
  \/ ImgError(s, i)
  \/ ToBlobCallback(s, i) /\ BlobIsNull(tasks[s][i].dims)
StoreFails(s, i) == ReaderLoad(s, i, PageTime, FALSE)

\* C2: when the transform or the store write of an upload fails, an error
\* notification is shown and the slot's record is unchanged; and when the
\* handling of the failure ends (the progress indicator is hidden) the slot
\* shows what it showed before the upload, Empty or Displaying.
C2_FailureRollsBack ==
  [][\A s \in Slots, i \in TaskIndex :
       /\ (TransformFails(s, i) \/ StoreFails(s, i))
            => ToastsOf(calls', "error") # {} /\ localStorage' = localStorage
       /\ (/\ HideProgressTimeout(s, i)
           /\ tasks[s][i].outcome = "failed"
           /\ tasks[s][i].before \in {"Empty", "Displaying"})
            => SlotShows(Dom', s) = tasks[s][i].before]_vars

\* C3: handleFile with a file that is not of an image type or is larger than
\* 10 MB changes neither the store nor the placeholder, the photo display, the
\* progress indicator or the shown image of the slot, and starts no transform.
C3_InvalidFileChangesNothing ==
  [][\A s \in Slots, f \in Files :
       (/\ f.type[1] # "image" \/ f.size > 10 * 1024 * 1024
        /\ FileInputChange(s, f) \/ (f.type[1] = "image" /\ Drop(s, f)))
         => UNCHANGED <<localStorage, placeholder, photoDisplay, uploadProgress,
                        uploadedPhoto, tasks, started>>]_vars

\* a file was just rejected for its size on a page with a Displaying slot and a
\* stored record
C3_Witness ==
  /\ calls = <<Call("alert", "Image size must be less than 10MB", "")>>
  /\ \E s \in Slots :
       SlotShows(Dom, s) = "Displaying" /\ SlotKey(s) \in DOMAIN localStorage

\* C4: when the transform and the store write of an upload succeed, the slot
\* displays the transformed image, the store holds the file's name and the
\* transformed image for the slot, one download love-letter-<slotId>-<name> of
\* that image is triggered and one success notification shown, and the record
\* is saved before the photo is displayed and the download triggered; so a
\* rejected write displays and downloads nothing.
C4_SuccessfulUpload ==
  [][\A s \in Slots, i \in TaskIndex :
       /\ ReaderLoad(s, i, PageTime, TRUE) =>
            LET f == tasks[s][i].file
                d == Transformed(f)
                r == PhotoStorageLoad(localStorage', s)
                c == calls'
            IN  /\ PhotoShown(photoDisplay'[s]) /\ ~PlaceholderShown(placeholder'[s])
                /\ uploadedPhoto'[s] = d
                /\ ~r.threw /\ ~r.isNull
                /\ Get(r.obj, "originalName") = f.name /\ Get(r.obj, "imageData") = d
                /\ Cardinality(CallsTo(c, "downloadImage")) = 1
                /\ \A k \in CallsTo(c, "downloadImage") :
                     c[k].a = d /\ c[k].b = "love-letter-" \o s \o "-" \o f.name
                /\ Cardinality(ToastsOf(c, "success")) = 1 /\ ToastsOf(c, "error") = {}
                /\ Cardinality(CallsTo(c, "save")) = 1
                /\ \A k \in CallsTo(c, "save"),
                      j \in CallsTo(c, "displayPhoto") \cup CallsTo(c, "downloadImage") : k < j
       /\ ReaderLoad(s, i, PageTime, FALSE) =>
            /\ CallsTo(calls', "downloadImage") = {}
            /\ UNCHANGED <<photoDisplay, uploadedPhoto>>]_vars

\* an upload of beach.png just succeeded: displayed, stored and downloaded
C4_Witness ==
  \E s \in Slots :
    /\ Cardinality(CallsTo(calls, "downloadImage")) = 1
    /\ uploadedPhoto[s] = Transformed(FileNamed("beach.png"))
    /\ PhotoShown(photoDisplay[s])
    /\ Get(PhotoStorageLoad(localStorage, s).obj, "originalName") = "beach.png"

\* C5: a confirmed delete of a Displaying slot leaves load absent for the slot
\* and the slot showing the placeholder, not the photo; a declined delete
\* changes neither the store nor the display.
C5_Delete ==
  [][\A s \in Slots :
       /\ (DeleteBtnClick(s, TRUE) /\ SlotShows(Dom, s) = "Displaying") =>
            /\ PhotoStorageLoad(localStorage', s) = NullResult
            /\ PlaceholderShown(placeholder'[s]) /\ ~PhotoShown(photoDisplay'[s])
       /\ DeleteBtnClick(s, FALSE) => UNCHANGED <<localStorage, domVars>>]_vars

\* a photo was just deleted: no record, placeholder back
C5_Witness ==
  /\ calls = <<Call("showToast", "Photo removed successfully!", "success")>>
  /\ \E s \in Slots :
       /\ SlotKey(s) \notin DOMAIN localStorage
       /\ placeholder[s] = "block" /\ photoDisplay[s] = "none"

\* C6: load returns absent and does not throw when nothing is stored for the
\* slot and when what is stored does not parse; and the initialization of the
\* slots completes over such a store.
C6_LoadNeverThrows ==
  /\ \A s \in Slots :
       (SlotKey(s) \notin DOMAIN localStorage \/ localStorage[SlotKey(s)].syntax # "object")
         => PhotoStorageLoad(localStorage, s) = NullResult
  /\ loaded => listening = Slots

\* C7: after any saves and removes a slot has one key at most, and load gives
\* exactly the image, the name and the time of the last save accepted for the
\* slot since its last remove, absent if there is none; nothing of an earlier
\* record is left.
C7_LoadReturnsLastSave ==
  /\ DOMAIN localStorage \subseteq {SlotKey(s) : s \in Slots}
  /\ \A s \in Slots :
       LET w == lastWrite[s]
           r == PhotoStorageLoad(localStorage, s)
       IN  /\ w.kind = "saved" =>
                r = [threw |-> FALSE, isNull |-> FALSE,
                     obj |-> << <<"imageData", w.imageData>>,
                                <<"originalName", w.originalName>>,
                                <<"uploadedAt", w.uploadedAt>> >>]
           /\ w.kind = "removed" => r = NullResult

\* a save replaced the record of an occupied slot
C7_Witness ==
  \E s \in Slots :
    /\ lastWrite[s].kind = "saved" /\ lastWrite[s].replaced
    /\ lastWrite[s].originalName = "beach.png"
    /\ lastWrite[s].uploadedAt = "2026-01-02T00:00:00.000Z"

\* C8: remove raises no error and leaves load absent; on a slot without a
\* record it changes nothing; and a second remove leaves the store as the
\* first left it.
C8_RemoveIdempotent ==
  [][\A s \in Slots :
       ApiRemove(s) =>
         /\ ~ret'.threw
         /\ PhotoStorageLoad(localStorage', s) = NullResult
         /\ SlotKey(s) \notin DOMAIN localStorage => localStorage' = localStorage
         /\ PhotoStorageRemove(localStorage', s) = [ls |-> localStorage', threw |-> FALSE]]_vars

\* remove was just called on a slot that had no record
C8_Witness == ret.call = "remove" /\ ~ret.present /\ ~ret.threw

Abs(x) == IF x < 0 THEN -x ELSE x
Bigger(x, y) == IF x > y THEN x ELSE y

\* C9: for every source size and every maxWidth and maxHeight the output is at
\* most maxWidth wide and maxHeight high, and its width:height ratio is the
\* source's within the rounding of one pixel.
C9_OutputWithinBounds ==
  ret.call = "resize" =>
    /\ ret.out.width <= ret.maxWidth
    /\ ret.out.height <= ret.maxHeight
    /\ Abs(ret.out.width * ret.height - ret.out.height * ret.width)
         <= Bigger(ret.width, ret.height)

\* the scale policy as specified: width >= height clamps the width
SpecifiedPolicy(width, height, maxWidth, maxHeight) ==
  IF width >= height
    THEN IF width > maxWidth
           THEN [width |-> maxWidth, height |-> (height * maxWidth) \div width]
           ELSE [width |-> width, height |-> height]
    ELSE IF height > maxHeight
           THEN [width |-> (width * maxHeight) \div height, height |-> maxHeight]
           ELSE [width |-> width, height |-> height]

\* C10 as stated: the output dimensions are those of the specified policy
\* (width >= height: clamp the width; otherwise clamp the height) for every
\* source size and every maxWidth and maxHeight.
C10_AsSpecified ==
  ret.call = "resize" =>
    ret.out = SpecifiedPolicy(ret.width, ret.height, ret.maxWidth, ret.maxHeight)

\* C10, amended: when width > height the width is clamped to maxWidth if it
\* exceeds it and the height derived proportionally; otherwise (width <= height,
\* square images included) the height is clamped to maxHeight if it exceeds it
\* and the width derived proportionally; an image within bounds keeps its
\* dimensions and no image is upscaled.
C10_ScalePolicy ==
  ret.call = "resize" =>
    LET w == ret.width   h == ret.height   mw == ret.maxWidth   mh == ret.maxHeight
        ow == ret.out.width   oh == ret.out.height
    IN  /\ (w > h /\ w > mw) =>
             ow = mw /\ oh * w <= h * mw /\ h * mw < (oh + 1) * w
        /\ (w > h /\ w <= mw) => ow = w /\ oh = h
        /\ (w <= h /\ h > mh) =>
             oh = mh /\ ow * h <= w * mh /\ w * mh < (ow + 1) * h
        /\ (w <= h /\ h <= mh) => ow = w /\ oh = h
        /\ (w <= mw /\ h <= mh) => ow = w /\ oh = h
        /\ ow <= w /\ oh <= h

\* a square image wider than maxWidth and within maxHeight was resized
C10_Witness ==
  /\ ret.call = "resize"
  /\ ret.width = ret.height /\ ret.width > ret.maxWidth /\ ret.height <= ret.maxHeight
  /\ ret.out = [width |-> ret.width, height |-> ret.height]


\* the viewers whose overlay is in the page, and those whose handleEsc is on
\* the document
OpenViewers == {v \in 1..Len(viewers) : viewers[v].attached}
EscListeners == {v \in 1..Len(viewers) : viewers[v].escListener}
Uncaught(c, error) == {k \in CallsTo(c, "uncaught") : c[k].a = error}

\* C11: a viewer dismissed by a click on its background, by its close control
\* or by the cancel key no longer has its cancel-key listener registered: the
\* registered viewer listeners are those of the viewers that are open.
C11_ListenersOfOpenViewers ==
  /\ EscListeners = OpenViewers
  /\ Cardinality(EscListeners) = Cardinality(OpenViewers)

\* C12: openGallery with a title of the table renders that title's images, in
\* the table's order, in the first slots of a grid of 9, each bound to
\* viewFullImage with its own image; with any other title it renders 9
\* placeholders, no image, and raises nothing; the grid never has slots of a
\* gallery opened before.
C12_GalleryRenders ==
  [][/\ \A title \in Titles, subtitle \in Subtitles :
          OpenGalleryCall(title, subtitle) =>
            LET grid == galleryModal'.grid
                known == title \in {"My Everything", "Our Future"}
            IN  /\ Len(grid) = 9
                /\ calls' = <<>>
                /\ known =>
                     /\ {i \in 1..9 : grid[i].img # ""} = 1..Len(GALLERY_IMAGES[title])
                     /\ \A i \in 1..Len(GALLERY_IMAGES[title]) :
                          /\ grid[i].img = GALLERY_IMAGES[title][i]
                          /\ grid[i].listener.bound
                          /\ grid[i].listener.imageSrc = GALLERY_IMAGES[title][i]
                /\ ~known =>
                     \A i \in 1..9 : grid[i].img = "" /\ ~grid[i].listener.bound
     /\ \A i \in 1..9 :
          PhotoSlotClick(i) =>
            /\ Len(viewers') = Len(viewers) + 1
            /\ viewers'[Len(viewers')].src = galleryModal.grid[i].img
            /\ viewers'[Len(viewers')].attached]_vars

\* the second gallery is open after a photo of the first one was viewed
C12_Witness ==
  /\ galleryModal.active /\ galleryModal.title = "Our Future"
  /\ Len(galleryModal.grid) = 9 /\ galleryModal.grid[9].img = "Us9.jpg"
  /\ \E v \in 1..Len(viewers) : viewers[v].src = "MyEv1.JPG"

GalleryConsistent ==
  /\ galleryModal.active <=> ~currentGallery.isNull
  /\ bodyOverflow = "hidden" <=> galleryModal.active

\* C13: after any opens and closes the modal is visible exactly when
\* currentGallery is set, and the scroll suppressed exactly when the modal is
\* visible; and every close (closeGallery called, a click on the background of
\* the modal, the cancel key while a gallery is open) leaves the modal hidden,
\* the scroll restored and currentGallery cleared.
C13_GalleryOpenClose ==
  /\ GalleryConsistent
  /\ [][/\ GalleryConsistent'
        /\ (\/ CloseGalleryCall
            \/ GalleryBackgroundClick
            \/ Keydown("Escape") /\ ~currentGallery.isNull)
             => /\ ~galleryModal'.active
                /\ bodyOverflow' # "hidden"
                /\ currentGallery'.isNull]_vars

\* C16: no dismiss event removes an overlay that was removed before: no
\* click on an overlay and no cancel key raises the error of removeChild.
C16_OverlayRemovedOnce == Uncaught(calls, "NotFoundError") = {}

\* C14: the initialization of a slot controller shows the photo display with
\* the stored image and hides the placeholder when the store holds a record
\* for the slot, shows the placeholder and not the photo display otherwise,
\* and writes nothing to the store.
C14_InitRendersStore ==
  [][DOMContentLoaded =>
       /\ localStorage' = localStorage
       /\ \A s \in listening' :
            IF SlotKey(s) \in DOMAIN localStorage /\ localStorage[SlotKey(s)].syntax = "object"
              THEN /\ PhotoShown(photoDisplay'[s]) /\ ~PlaceholderShown(placeholder'[s])
                   /\ uploadedPhoto'[s] = Get(localStorage[SlotKey(s)].members, "imageData")
              ELSE /\ PlaceholderShown(placeholder'[s]) /\ ~PhotoShown(photoDisplay'[s])]_vars

\* the page was just initialized: one slot shows its stored photo, another one
\* without a record shows the placeholder
C14_Witness ==
  /\ loaded /\ started = 0 /\ listening = Slots
  /\ \E s \in Slots, o \in Slots :
       /\ SlotKey(s) \in DOMAIN localStorage
       /\ SlotShows(Dom, s) = "Displaying" /\ uploadedPhoto[s] = Transformed(OldPhoto)
       /\ SlotKey(o) \notin DOMAIN localStorage
       /\ SlotShows(Dom, o) = "Empty"

\* C15: a drop of a file whose type does not begin with "image/" starts no
\* upload, changes neither the store nor the placeholder, the photo display,
\* the progress indicator or the shown image of any slot, and raises no alert
\* and no notification; it only clears the drag-over highlight of the card.
C15_NonImageDropIgnored ==
  [][\A s \in Slots, f \in Files :
       (DropListener(s, f) /\ (f.type = <<>> \/ f.type[1] # "image")) =>
         /\ UNCHANGED <<localStorage, placeholder, photoDisplay, uploadProgress,
                        uploadedPhoto, progressFill, tasks, started>>
         /\ calls' = <<>>
         /\ dragOver' = [dragOver EXCEPT ![s] = FALSE]]_vars

\* notes.txt was just dropped on a highlighted card that displays its stored
\* photo: the highlight is gone, the photo and the record are there
C15_Witness ==
  /\ ret.call = "drop" /\ ret.file = "notes.txt" /\ ret.highlighted
  /\ ~dragOver[ret.slotId] /\ calls = <<>>
  /\ SlotShows(Dom, ret.slotId) = "Displaying"
  /\ SlotKey(ret.slotId) \in DOMAIN localStorage

\* the uploads of slot s whose transform has not completed or failed
Pending(s) ==
  {i \in 1..Len(tasks[s]) : tasks[s][i].stage \in {"decoding", "encoding", "reading"}}

\* C17: while an upload of a slot is pending its progress indicator is
\* visible, also when uploads of the slot overlap or follow each other closely.
C17_ProgressShownWhilePending ==
  \A s \in Slots : Pending(s) # {} => ProgressShown(uploadProgress[s])

\* what the page shows for slot o and what the store holds for it
SlotView(d, ls, o) ==
  [placeholder |-> d.placeholder[o], photoDisplay |-> d.photoDisplay[o],
   uploadProgress |-> d.uploadProgress[o], uploadedPhoto |-> d.uploadedPhoto[o],
   progressFill |-> d.progressFill[o], record |-> PhotoStorageLoad(ls, o)]

\* a step of slot s: an event of its card or a step of one of its uploads.
\* A step of an upload changes the uploads of its slot, a delete and a rejected
\* or ignored file change no upload.
StepOf(s) ==
  \/ /\ tasks'[s] # tasks[s]
     /\ \/ \E f \in Files : FileInputChange(s, f) \/ Drop(s, f)
        \/ \E i \in TaskIndex :
             \/ ImgLoad(s, i) \/ ImgError(s, i) \/ ToBlobCallback(s, i)
             \/ \E ok \in BOOLEAN : ReaderLoad(s, i, PageTime, ok)
             \/ HideProgressTimeout(s, i)
  \/ /\ tasks' = tasks
     /\ \/ \E f \in Files : FileInputChange(s, f) \/ Drop(s, f)
        \/ \E confirmed \in BOOLEAN : DeleteBtnClick(s, confirmed)

\* C18: an upload (successful, rejected or failed), a delete or the
\* initialization of one slot leaves the record and the display of every
\* other slot as they were, however the slots' events and pending transforms
\* interleave.
C18_SlotsIndependent ==
  [][\A s \in Slots : \A o \in Slots \ {s} :
       \* a step that changes slot o is no step of slot s
       /\ \/ /\ SlotView(Dom', localStorage', o) = SlotView(Dom, localStorage, o)
             /\ tasks'[o] = tasks[o]
          \/ ~StepOf(s)
       \* new PhotoUploader(card of s) leaves slot o as it is
       /\ ~loaded =>
            SlotView(Construct([dom |-> Dom, listening |-> listening, threw |-> FALSE], s).dom,
                     localStorage, o)
              = SlotView(Dom, localStorage, o)]_vars

\* an upload of one slot was just saved and displayed while another slot, which
\* holds an earlier record, has an upload in its encoder
C18_Witness ==
  \E s \in Slots : \E o \in Slots \ {s} :
    /\ Cardinality(CallsTo(calls, "downloadImage")) = 1
    /\ uploadedPhoto[s] = Transformed(FileNamed("beach.png"))
    /\ Get(PhotoStorageLoad(localStorage, s).obj, "originalName") = "beach.png"
    /\ Len(tasks[o]) = 1 /\ tasks[o][1].stage = "encoding"
    /\ SlotKey(o) \in DOMAIN localStorage
    /\ Get(PhotoStorageLoad(localStorage, o).obj, "originalName") = "old.jpg"

====
